---- MODULE Spec2Model ----
(***************************************************************************)
(* Model of build_bootable_disk_image.py: assembly of the (tag, data)      *)
(* block lists of a bootable Apple Lisa hard disk image and their          *)
(* serialisation to the raw, usbwidex, dc42 and blu container formats.     *)
(*                                                                         *)
(* Byte strings are sequences of naturals in 0..255, text strings are      *)
(* sequences of ASCII codes, Python lists are sequences.  An Optional      *)
(* value is <<>> for None and <<v>> for the value v.                       *)
(***************************************************************************)
EXTENDS Integers, Sequences, FiniteSets, TLC

----------------------------------------------------------------------------
(* Bounds of the model. *)

\* Largest effective block count of an assembled image.
MaxBlocks == 4

\* Longest list handed directly to the permute functions.
MaxPermuteLen == 65

\* Longest of the short lines handed directly to _read_next_tag.
MaxShortLine == 3

\* Most 16-bit words in the short buffers handed directly to checksum.
MaxWords == 2

----------------------------------------------------------------------------
(* Python built-ins. *)

None == <<>>

Some(v) == <<v>>

IsNone(o) == o = <<>>

Val(o) == o[1]

\* e, with v evaluated first: a loop computes each value of its accumulator
\* before it goes round again.
Eval(v, e) == IF v = v THEN e ELSE e

Min(a, b) == IF a < b THEN a ELSE b

\* b'\x00' * n   (an empty string when n <= 0)
Zeros(n) == [i \in 1..n |-> 0]

\* s[a:b] for 0 <= a, 0 <= b
Slice(s, a, b) == SubSeq(s, a + 1, Min(b, Len(s)))

\* s[a:]
SliceFrom(s, a) == SubSeq(s, a + 1, Len(s))

\* math.ceil(n / d) for n >= 0
Ceil(n, d) == (n + d - 1) \div d

\* b''.join(items)
RECURSIVE Join(_)
Join(items) ==
  IF items = <<>> THEN <<>> ELSE Head(items) \o Join(Tail(items))

\* struct.pack('>H', v)
PackH(v) == <<(v \div 256) % 256, v % 256>>

\* struct.unpack_from('>H', block, i)[0]
UnpackH(block, i) == block[i + 1] * 256 + block[i + 2]

\* The decimal digits of a natural number, as ASCII codes.
RECURSIVE Digits(_)
Digits(n) ==
  IF n < 10 THEN <<48 + n>> ELSE Digits(n \div 10) \o <<48 + (n % 10)>>

----------------------------------------------------------------------------
(* Module constants. *)

BLOCK_DATA_SIZE == 512

BLOCK_TAG_SIZE == 20

BOOTLOADER_SIZE == 1064

TAG_TEXT_SIZE == 18

USBWIDEX_PAD == 492

_DEFAULT_NUM_BLOCKS ==
  [d \in {"profile", "profile-10", "widget"} |->
     IF d = "profile" THEN 9728 ELSE 19456]

IMAGE_FORMATS == {"dc42", "blu", "raw", "usbwidex"}

DEVICES == DOMAIN _DEFAULT_NUM_BLOCKS

\* b' bit.ly/3arucNJ  \x00'
TAG_FOR_LAST_BLOCK ==
  <<32, 98, 105, 116, 46, 108, 121, 47, 51, 97, 114, 117, 99, 78, 74, 32, 32, 0>>

\* base64.decodebytes(bytes(_BUILT_IN_BOOTLOADER, 'ascii')): 834 bytes
_BUILT_IN_BOOTLOADER ==
  <<89, 111, 33, 32, 170, 170, 32, 73, 39, 109, 32, 98, 111, 111, 116, 97, 98, 108, 101, 33,
    16, 56, 1, 179, 97, 26, 97, 0, 0, 156, 114, 64, 229, 137, 52, 60, 10, 3, 65, 250,
    1, 236, 97, 0, 1, 42, 103, 0, 2, 240, 78, 64, 50, 60, 0, 252, 72, 65, 50, 60,
    221, 129, 34, 65, 146, 252, 4, 128, 116, 4, 87, 0, 107, 28, 81, 0, 106, 24, 116, 16,
    50, 60, 224, 1, 4, 65, 64, 0, 86, 0, 107, 248, 83, 0, 103, 4, 6, 65, 8, 0,
    34, 65, 65, 250, 0, 42, 32, 193, 210, 66, 32, 193, 69, 233, 0, 96, 32, 202, 69, 233,
    0, 16, 32, 202, 32, 201, 69, 233, 0, 24, 32, 202, 69, 233, 0, 120, 32, 202, 69, 233,
    0, 8, 32, 202, 78, 117, 60, 45, 45, 45, 45, 90, 111, 110, 101, 32, 102, 111, 114, 32,
    86, 73, 65, 32, 97, 100, 100, 114, 101, 115, 115, 101, 115, 45, 45, 45, 45, 62, 0, 0,
    83, 84, 65, 84, 72, 231, 0, 252, 65, 250, 255, 212, 76, 208, 63, 0, 0, 16, 0, 160,
    0, 17, 0, 160, 2, 18, 0, 123, 0, 18, 0, 107, 26, 188, 0, 0, 0, 20, 0, 24,
    2, 20, 0, 251, 2, 19, 0, 252, 0, 19, 0, 28, 8, 20, 0, 0, 76, 223, 63, 0,
    78, 117, 66, 17, 2, 18, 0, 239, 22, 188, 0, 0, 72, 64, 48, 60, 255, 255, 8, 18,
    0, 1, 103, 10, 78, 113, 78, 113, 81, 200, 255, 244, 96, 36, 72, 64, 176, 20, 86, 209,
    87, 192, 2, 64, 0, 85, 2, 18, 0, 231, 22, 188, 0, 255, 24, 128, 0, 18, 0, 16,
    72, 64, 66, 64, 228, 136, 97, 18, 102, 4, 0, 17, 0, 1, 22, 188, 0, 0, 0, 18,
    0, 24, 74, 17, 78, 117, 82, 128, 8, 18, 0, 1, 102, 4, 83, 128, 102, 246, 78, 117,
    96, 156, 72, 231, 0, 124, 67, 250, 255, 70, 76, 217, 60, 0, 64, 231, 0, 124, 7, 0,
    66, 17, 112, 8, 72, 64, 97, 214, 102, 6, 84, 17, 96, 0, 0, 128, 112, 1, 97, 216,
    107, 0, 0, 120, 103, 14, 112, 8, 237, 136, 97, 190, 103, 108, 112, 1, 97, 198, 102, 102,
    2, 18, 0, 247, 22, 188, 0, 255, 112, 3, 26, 129, 225, 153, 81, 200, 255, 250, 225, 90,
    26, 130, 225, 90, 26, 130, 22, 188, 0, 0, 0, 18, 0, 8, 16, 1, 84, 0, 97, 156,
    102, 60, 48, 60, 2, 19, 74, 1, 103, 30, 2, 18, 0, 247, 22, 188, 0, 255, 26, 152,
    81, 200, 255, 252, 22, 188, 0, 0, 0, 18, 0, 8, 112, 6, 97, 0, 255, 22, 102, 22,
    73, 250, 254, 210, 24, 213, 24, 213, 24, 213, 24, 213, 74, 1, 102, 6, 16, 213, 81, 200,
    255, 252, 70, 223, 74, 17, 76, 223, 62, 0, 78, 117, 0, 0, 0, 0, 0, 0, 0, 0,
    0, 0, 0, 0, 0, 0, 0, 0, 0, 0, 0, 0, 32, 98, 105, 116, 46, 108, 121, 47,
    51, 97, 114, 117, 99, 78, 74, 32, 32, 0, 0, 0, 48, 124, 8, 0, 210, 135, 97, 0,
    255, 38, 102, 54, 97, 58, 103, 30, 66, 40, 0, 18, 72, 231, 97, 128, 71, 232, 0, 2,
    122, 13, 124, 24, 120, 24, 78, 185, 0, 254, 0, 136, 76, 223, 1, 134, 96, 214, 65, 250,
    253, 220, 67, 250, 254, 92, 69, 250, 254, 246, 71, 250, 254, 78, 78, 248, 8, 0, 71, 250,
    0, 88, 96, 72, 144, 252, 2, 20, 34, 72, 76, 217, 124, 0, 112, 127, 32, 217, 81, 200,
    255, 252, 72, 208, 124, 0, 72, 231, 97, 128, 144, 252, 2, 0, 48, 60, 1, 0, 66, 65,
    78, 185, 0, 254, 0, 188, 76, 223, 1, 134, 101, 20, 67, 232, 0, 2, 69, 250, 255, 110,
    16, 26, 176, 25, 102, 4, 74, 0, 102, 246, 78, 117, 71, 250, 0, 59, 32, 1, 224, 136,
    149, 202, 78, 185, 0, 254, 0, 132, 82, 69, 65, 68, 32, 69, 82, 82, 79, 82, 46, 46,
    46, 32, 83, 69, 67, 84, 79, 82, 32, 78, 85, 77, 32, 83, 72, 79, 87, 78, 32, 73,
    78, 32, 69, 82, 82, 79, 82, 32, 67, 79, 68, 69, 0, 66, 65, 68, 32, 67, 72, 69,
    67, 75, 83, 85, 77, 46, 46, 46, 32, 83, 69, 67, 84, 79, 82, 32, 78, 85, 77, 32,
    83, 72, 79, 87, 78, 32, 73, 78, 32, 69, 82, 82, 79, 82, 32, 67, 79, 68, 69, 0,
    48, 60, 2, 236, 32, 120, 2, 168, 208, 252, 128, 0, 144, 192, 67, 250, 253, 4, 83, 64,
    16, 217, 81, 200, 255, 252, 46, 1, 144, 252, 0, 248, 78, 208>>

----------------------------------------------------------------------------
(* Exceptions and results.  A call either returns (exc = "None") or raises  *)
(* the exception class exc at source line `line`.                           *)

NoExc == [exc |-> "None", line |-> 0]

Raise(cls, ln) == [exc |-> cls, line |-> ln]

----------------------------------------------------------------------------
(* checksum: add-and-rotate-left-1 16-bit big-endian block checksum. *)

\* Slip: a shift left instead of a rotation; the top bit is lost.
rotl16_Shift(c) == (c * 2) % 65536

\* ((checksum << 1) + (checksum >> 15)) & 0xffff
rotl16(c) == ((c * 2) + (c \div 32768)) % 65536

\* The loop of checksum over the words first .. last-1 of block, in order,
\* starting from acc.
RECURSIVE checksum_loop(_, _, _, _)
checksum_loop(block, first, last, acc) ==
  IF last <= first THEN acc
  ELSE IF last - first = 1
  THEN rotl16((acc + UnpackH(block, 2 * first)) % 65536)
  ELSE LET mid == (first + last) \div 2
           left == checksum_loop(block, first, mid, acc)
       IN Eval(left, checksum_loop(block, mid, last, left))

checksum(block) ==
  PackH((65536 - checksum_loop(block, 0, Ceil(Len(block), 2), 0)) % 65536)

----------------------------------------------------------------------------
(* Tag sources: Python iterators over text lines.                          *)
(*   [kind |-> "DefaultTags", blocks_read |-> n]   a DefaultTags object     *)
(*   [kind |-> "lines", lines |-> seq, pos |-> n]  an iterator over lines,  *)
(*                                                   pos of them consumed   *)

DefaultTags == [kind |-> "DefaultTags", blocks_read |-> 0]

LinesIter(lines) == [kind |-> "lines", lines |-> lines, pos |-> 0]

\* 'READ {}K...\n'.format(0.5 * n)
DefaultTagLine(n) ==
  <<82, 69, 65, 68, 32>> \o Digits(n \div 2) \o <<46>>
    \o (IF n % 2 = 1 THEN <<53>> ELSE <<48>>) \o <<75, 46, 46, 46, 10>>

\* next(fp): [stop, item, fp]
IterNext(fp) ==
  IF fp.kind = "DefaultTags"
  THEN [stop |-> FALSE,
        item |-> DefaultTagLine(fp.blocks_read + 1),
        fp   |-> [fp EXCEPT !.blocks_read = @ + 1]]
  ELSE IF fp.pos < Len(fp.lines)
  THEN [stop |-> FALSE,
        item |-> fp.lines[fp.pos + 1],
        fp   |-> [fp EXCEPT !.pos = @ + 1]]
  ELSE [stop |-> TRUE, item |-> <<>>, fp |-> fp]

\* How many items have been drawn from the iterator so far.
Drawn(fp) == IF fp.kind = "DefaultTags" THEN fp.blocks_read ELSE fp.pos

\* '0123456789ABCDEFGHIJKLMNOPQRSTUVWXYZ ./-?'
ROM_CHARS == (48..57) \cup (65..90) \cup {32, 46, 47, 45, 63}

\* tag.rstrip('\r\n')
RECURSIVE RStripCRLF(_)
RStripCRLF(s) ==
  IF s # <<>> /\ s[Len(s)] \in {13, 10}
  THEN RStripCRLF(SubSeq(s, 1, Len(s) - 1))
  ELSE s

\* tag + (' ' * (18 - len(tag)))
SpacePad(tag) == tag \o [i \in 1..(TAG_TEXT_SIZE - Len(tag)) |-> 32]

\* Slip: the line is clipped to 18 characters before it is scanned for
\* characters that are not in the ROM.
_read_next_tag_ClipFirst(fp) ==
  LET nxt == IterNext(fp)
      tag == RStripCRLF(nxt.item)
      clipped == Slice(tag, 0, TAG_TEXT_SIZE)
  IN IF nxt.stop
     THEN [err |-> Raise("IOError", 445), tag |-> <<>>, fp |-> nxt.fp,
           warned |-> FALSE]
     ELSE IF \E k \in 1..Len(clipped) : clipped[k] \notin ROM_CHARS
     THEN [err |-> Raise("RuntimeError", 450), tag |-> <<>>, fp |-> nxt.fp,
           warned |-> FALSE]
     ELSE [err |-> NoExc, tag |-> SpacePad(clipped), fp |-> nxt.fp,
           warned |-> Len(tag) > TAG_TEXT_SIZE]

\* _read_next_tag(fp): [err, tag, fp, warned]
_read_next_tag(fp) ==
  LET nxt == IterNext(fp)
      tag == RStripCRLF(nxt.item)
  IN IF nxt.stop
     THEN [err |-> Raise("IOError", 445), tag |-> <<>>, fp |-> nxt.fp,
           warned |-> FALSE]
     ELSE IF \E k \in 1..Len(tag) : tag[k] \notin ROM_CHARS
     THEN [err |-> Raise("RuntimeError", 450), tag |-> <<>>, fp |-> nxt.fp,
           warned |-> FALSE]
     ELSE IF Len(tag) > TAG_TEXT_SIZE
     THEN [err |-> NoExc, tag |-> SpacePad(Slice(tag, 0, TAG_TEXT_SIZE)),
           fp |-> nxt.fp, warned |-> TRUE]
     ELSE [err |-> NoExc, tag |-> SpacePad(tag), fp |-> nxt.fp,
           warned |-> FALSE]

----------------------------------------------------------------------------
(* make_tags_and_data *)

\* [program[i:i+0x200] for i in range(0, len(program), 0x200)]
Chunks(program) ==
  [k \in 1..Ceil(Len(program), BLOCK_DATA_SIZE) |->
     Slice(program, (k - 1) * BLOCK_DATA_SIZE, k * BLOCK_DATA_SIZE)]

\* [c + _read_next_tag(display_tags) for c in checksums]: the tags built so
\* far, the iterator after the draws, the warnings emitted, and the exception
\* of the draw that failed (the comprehension stops there).
RECURSIVE DrawTags(_, _)
DrawTags(checksums, fp) ==
  IF checksums = <<>>
  THEN [err |-> NoExc, tags |-> <<>>, fp |-> fp, warnings |-> 0]
  ELSE LET r == _read_next_tag(fp)
       IN IF r.err.exc # "None"
          THEN [err |-> r.err, tags |-> <<>>, fp |-> r.fp, warnings |-> 0]
          ELSE LET rest == DrawTags(Tail(checksums), r.fp)
               IN [err      |-> rest.err,
                   tags     |-> <<Head(checksums) \o r.tag>> \o rest.tags,
                   fp       |-> rest.fp,
                   warnings |-> rest.warnings + (IF r.warned THEN 1 ELSE 0)]

\* The outcome of a make_tags_and_data call that raises.
MtdRaise(cls, ln, fp) ==
  [err |-> Raise(cls, ln), tags |-> <<>>, data |-> <<>>, fp |-> fp,
   warnings |-> 0]

\* Slip: every checksum gets a drawn label, the last one too.
AllButLast_Whole(checksums) == checksums

\* checksums[:-1]
AllButLast(checksums) == SubSeq(checksums, 1, Len(checksums) - 1)

\* Slip: the trailer goes on the last block of the image instead of the last
\* block of the program.
ProgramTags_TrailerAtEnd(label_tags, program_checksums, num_blocks, program_blocks) ==
  label_tags
    \o [k \in 1..(num_blocks - program_blocks - 2) |-> Zeros(BLOCK_TAG_SIZE)]
    \o <<program_checksums[Len(program_checksums)] \o TAG_FOR_LAST_BLOCK>>

\* Slip: the tag of the last program block carries the trailer but not the
\* checksum of the block.
ProgramTags_TrailerNoChecksum(label_tags, program_checksums, num_blocks, program_blocks) ==
  label_tags
    \o <<Zeros(2) \o TAG_FOR_LAST_BLOCK>>
    \o [k \in 1..(num_blocks - program_blocks - 2) |-> Zeros(BLOCK_TAG_SIZE)]

\* program_tags (lines 320-323) from the tags of the blocks before the last
\* program block (label_tags) and the checksums of the program blocks.
ProgramTags(label_tags, program_checksums, num_blocks, program_blocks) ==
  label_tags
    \o <<program_checksums[Len(program_checksums)] \o TAG_FOR_LAST_BLOCK>>
    \o [k \in 1..(num_blocks - program_blocks - 2) |-> Zeros(BLOCK_TAG_SIZE)]

\* Slip: only one block set aside for the two-block bootloader.
DataSpace_OneBlockMore(num_blocks) == BLOCK_DATA_SIZE * (num_blocks - 1)

\* data_space: the non-tag bytes of the image after the bootloader
DataSpace(num_blocks) == BLOCK_DATA_SIZE * (num_blocks - 2)

\* program_tags and the return value (lines 311-328), after all the checks.
MtdBuild(bootloader, program, program_size, num_blocks, fp) ==
  LET bootloader_data == <<Slice(bootloader, 20, 532), SliceFrom(bootloader, 552)>>
      bootloader_tags == <<Slice(bootloader, 0, 20), Slice(bootloader, 532, 552)>>
      program_blocks == Ceil(program_size, BLOCK_DATA_SIZE)
      program_data == Chunks(program)
      program_checksums ==
        [k \in 1..Min(program_blocks, Len(program_data)) |->
           checksum(program_data[k])]
      drawn == DrawTags(AllButLast(program_checksums), fp)
      program_tags ==
        ProgramTags(drawn.tags, program_checksums, num_blocks, program_blocks)
  IN IF drawn.err.exc # "None"
     THEN [err |-> drawn.err, tags |-> <<>>, data |-> <<>>, fp |-> drawn.fp,
           warnings |-> drawn.warnings]
     ELSE IF program_checksums = <<>>
     THEN [err |-> Raise("IndexError", 322), tags |-> <<>>, data |-> <<>>,
           fp |-> drawn.fp, warnings |-> drawn.warnings]
     ELSE [err      |-> NoExc,
           tags     |-> bootloader_tags \o program_tags,
           data     |-> bootloader_data \o program_data,
           fp       |-> drawn.fp,
           warnings |-> drawn.warnings]

\* Slip: the size of the bootloader is checked before the block count.
make_tags_and_data_SizeFirst(device, program, bootloader, display_tags, num_blocks) ==
  LET fp0 == IF IsNone(display_tags) THEN DefaultTags ELSE Val(display_tags)
  IN IF device \notin DEVICES THEN MtdRaise("ValueError", 279, fp0)
     ELSE
     LET bl == IF IsNone(bootloader) \/ Val(bootloader) = <<>>
               THEN _BUILT_IN_BOOTLOADER ELSE Val(bootloader)
         nb == IF IsNone(num_blocks) \/ Val(num_blocks) = 0
               THEN _DEFAULT_NUM_BLOCKS[device] ELSE Val(num_blocks)
         program_size == Len(program)
         data_space == DataSpace(nb)
     IN IF Len(bl) > BOOTLOADER_SIZE THEN MtdRaise("ValueError", 292, fp0)
        ELSE IF nb < 3 THEN MtdRaise("ValueError", 288, fp0)
        ELSE IF data_space < program_size THEN MtdRaise("ValueError", 306, fp0)
        ELSE MtdBuild(bl \o Zeros(BOOTLOADER_SIZE - Len(bl)),
                      program \o Zeros(data_space - program_size),
                      program_size, nb, fp0)

\* make_tags_and_data(device, program, bootloader, display_tags, num_blocks)
\* bootloader, display_tags and num_blocks are Optional.
make_tags_and_data(device, program, bootloader, display_tags, num_blocks) ==
  LET fp0 == IF IsNone(display_tags) THEN DefaultTags ELSE Val(display_tags)
  IN IF device \notin DEVICES THEN MtdRaise("ValueError", 279, fp0)
     ELSE
     LET bl == IF IsNone(bootloader) \/ Val(bootloader) = <<>>
               THEN _BUILT_IN_BOOTLOADER ELSE Val(bootloader)
         nb == IF IsNone(num_blocks) \/ Val(num_blocks) = 0
               THEN _DEFAULT_NUM_BLOCKS[device] ELSE Val(num_blocks)
         program_size == Len(program)
         data_space == DataSpace(nb)
     IN IF nb < 3 THEN MtdRaise("ValueError", 288, fp0)
        ELSE IF Len(bl) > BOOTLOADER_SIZE THEN MtdRaise("ValueError", 292, fp0)
        ELSE IF data_space < program_size THEN MtdRaise("ValueError", 306, fp0)
        ELSE MtdBuild(bl \o Zeros(BOOTLOADER_SIZE - Len(bl)),
                      program \o Zeros(data_space - program_size),
                      program_size, nb, fp0)

----------------------------------------------------------------------------
(* The 32-block interleave permutation. *)

LISAEM_DEINTERLEAVE ==
  <<0, 13, 10, 7, 4, 1, 14, 11, 8, 5, 2, 15, 12, 9, 6, 3,
    16, 29, 26, 23, 20, 17, 30, 27, 24, 21, 18, 31, 28, 25, 22, 19>>

BLU_PROFILE_DEINTERLEAVE ==
  <<0, 13, 10, 7, 4, 1, 14, 11, 8, 5, 2, 15, 12, 9, 6, 3,
    16, 29, 26, 23, 20, 17, 30, 27, 24, 21, 18, 31, 28, 25, 22, 19>>

INTERLEAVE_CHUNK == 32

\* Slip: the table is not applied.
RECURSIVE permute_chunk_InPlace(_, _, _, _)
permute_chunk_InPlace(table, sub_original, j, sub_permuted) ==
  IF j >= Len(sub_original) THEN sub_permuted
  ELSE permute_chunk_InPlace(table, sub_original, j + 1,
         [sub_permuted EXCEPT ![j + 1] = sub_original[j + 1]])

\* for j, item in enumerate(sub_original): sub_permuted[table[j]] = item
RECURSIVE permute_chunk(_, _, _, _)
permute_chunk(table, sub_original, j, sub_permuted) ==
  IF j >= Len(sub_original) THEN sub_permuted
  ELSE permute_chunk(table, sub_original, j + 1,
         [sub_permuted EXCEPT ![table[j + 1] + 1] = sub_original[j + 1]])

\* for i in range(0, len(original), 32): ... permuted.extend(sub_permuted)
RECURSIVE permute_loop(_, _, _)
permute_loop(table, original, i) ==
  IF i >= Len(original) THEN <<>>
  ELSE LET sub_original == Slice(original, i, i + INTERLEAVE_CHUNK)
           sub_permuted == [k \in 1..INTERLEAVE_CHUNK |->
                              Zeros(Len(sub_original[1]))]
       IN permute_chunk(table, sub_original, 0, sub_permuted)
            \o permute_loop(table, original, i + INTERLEAVE_CHUNK)

\* permute, local to _make_apple_parallel_drive_image_dc42
dc42_permute(original) == permute_loop(LISAEM_DEINTERLEAVE, original, 0)

\* permute, local to _make_apple_parallel_drive_image_blu
blu_permute(original) == permute_loop(BLU_PROFILE_DEINTERLEAVE, original, 0)

----------------------------------------------------------------------------
(* dc42 *)

\* struct.pack('64p', b'-not a Macintosh disk-')
DC42_NAME ==
  <<22, 45, 110, 111, 116, 32, 97, 32, 77, 97, 99, 105, 110, 116, 111, 115,
    104, 32, 100, 105, 115, 107, 45>> \o Zeros(41)

DC42_ENCODING == <<93>>

DC42_FORMAT == <<147>>

DC42_MAGIC == <<1, 0>>

\* struct.pack('>I', v) for 0 <= v < 2^31
PackI(v) ==
  <<(v \div 16777216) % 256, (v \div 65536) % 256, (v \div 256) % 256, v % 256>>

\* Slip: a shift right instead of a rotate right.
addl_rorl_Shift(uint, csum) ==
  LET sumlo == csum[2] + uint
      lo == sumlo % 65536
      hi == (csum[1] + (sumlo \div 65536)) % 65536
  IN <<hi \div 2, (lo \div 2) + ((hi % 2) * 32768)>>

\* addl_rorl: add uint to csum, truncate to 32 bits, rotate right one bit.
\* A 32-bit unsigned value is the pair <<high 16 bits, low 16 bits>>.
addl_rorl(uint, csum) ==
  LET sumlo == csum[2] + uint
      lo == sumlo % 65536
      hi == (csum[1] + (sumlo \div 65536)) % 65536
      rbit == lo % 2
  IN <<(hi \div 2) + (rbit * 32768), (lo \div 2) + ((hi % 2) * 32768)>>

\* The loop of _dc42_checksum over the words first .. last-1 of data, in
\* order, starting from csum.
RECURSIVE dc42_checksum_loop(_, _, _, _)
dc42_checksum_loop(data, first, last, csum) ==
  IF last <= first THEN csum
  ELSE IF last - first = 1 THEN addl_rorl(UnpackH(data, 2 * first), csum)
  ELSE LET mid == (first + last) \div 2
           left == dc42_checksum_loop(data, first, mid, csum)
       IN Eval(left, dc42_checksum_loop(data, mid, last, left))

\* _dc42_checksum(data), for data of even length
_dc42_checksum(data) ==
  LET csum == dc42_checksum_loop(data, 0, Len(data) \div 2, <<0, 0>>)
  IN PackH(csum[1]) \o PackH(csum[2])

\* _make_apple_parallel_drive_image_dc42(tags, data, device)
_make_apple_parallel_drive_image_dc42(tags, data, device) ==
  LET data_cat == Join(dc42_permute(data))
      tags_cat == Join(dc42_permute(tags))
      data_length == PackI(Len(data_cat))
      tags_length == PackI(Len(tags_cat))
      data_checksum == _dc42_checksum(data_cat)
      tags_checksum == _dc42_checksum(SliceFrom(tags_cat, 12))
  IN [err   |-> NoExc,
      image |-> DC42_NAME \o data_length \o tags_length \o data_checksum
                  \o tags_checksum \o DC42_ENCODING \o DC42_FORMAT
                  \o DC42_MAGIC \o data_cat \o tags_cat]

----------------------------------------------------------------------------
(* blu *)

ID_DATA ==
  [d \in {"profile", "profile-10", "widget"} |->
     CASE d = "profile" ->
            <<80, 82, 79, 70, 73, 76, 69, 32, 32, 32, 32, 32, 32, 0, 0, 0,
              3, 152, 0, 38, 0, 2, 20, 32, 0, 0, 255, 255, 255, 255, 255,
              255>> \o Zeros(512 - 32)
       [] d = "profile-10" ->
            <<80, 82, 79, 70, 73, 76, 69, 32, 49, 48, 77, 32, 32, 0, 0, 1,
              4, 4, 0, 76, 0, 2, 20, 32, 0, 0, 255, 255, 255, 255, 255,
              255>> \o Zeros(512 - 32)
       [] d = "widget" ->
            <<87, 105, 100, 103, 101, 116, 45, 49, 48, 32, 32, 32, 32, 0, 1,
              0, 26, 69, 0, 76, 0, 2, 20, 2, 2, 2, 19, 0, 0, 76, 0, 0, 0, 0,
              0, 0>> \o Zeros(512 - 36)]

\* b'Lisa HD Img BLUV0.90'
ID_TAG ==
  <<76, 105, 115, 97, 32, 72, 68, 32, 73, 109, 103, 32, 66, 76, 85, 86, 48,
    46, 57, 48>>

\* s.startswith(prefix), over the device and format names of the model
StartsWith(s, prefix) ==
  CASE prefix = "widget"  -> s \in {"widget"}
    [] prefix = "profile" -> s \in {"profile", "profile-10"}
    [] OTHER              -> s = prefix

\* len(list(zip(a, b)))
ZipLen(a, b) == Min(Len(a), Len(b))

\* Slip: data before tag.
raw_image_DataFirst(tags, data) ==
  Join([k \in 1..ZipLen(tags, data) |-> data[k] \o tags[k]])

\* b''.join(sum(zip(tags, data), ()))
raw_image(tags, data) ==
  Join([k \in 1..ZipLen(tags, data) |-> tags[k] \o data[k]])

\* Slip: every record padded with a whole data block of zeros.
usbwidex_image_PadBlock(tags, data) ==
  Join([k \in 1..ZipLen(tags, data) |->
          tags[k] \o data[k] \o Zeros(BLOCK_DATA_SIZE)])

\* b''.join([t + d + b'\x00' * 0x1ec for t, d in zip(tags, data)])
usbwidex_image(tags, data) ==
  Join([k \in 1..ZipLen(tags, data) |->
          tags[k] \o data[k] \o Zeros(USBWIDEX_PAD)])

\* _make_apple_parallel_drive_image_blu(tags, data, device), run in a module
\* whose global FLAGS is `flags` (None when the name FLAGS is not defined).
_make_apple_parallel_drive_image_blu(tags, data, device, flags) ==
  IF device \notin DOMAIN ID_DATA
  THEN [err |-> Raise("ValueError", 709), image |-> <<>>]
  ELSE IF IsNone(flags)
  THEN [err |-> Raise("NameError", 719), image |-> <<>>]
  ELSE
  LET header == <<ID_DATA[device] \o ID_TAG>>
      blocks == IF StartsWith(Val(flags).format, "widget")
                THEN [k \in 1..ZipLen(data, tags) |-> tags[k] \o data[k]]
                ELSE [k \in 1..ZipLen(data, tags) |-> data[k] \o tags[k]]
      blu_blocks == IF StartsWith(Val(flags).format, "profile")
                    THEN header \o blu_permute(blocks)
                    ELSE header \o blocks
  IN [err |-> NoExc, image |-> Join(blu_blocks)]

----------------------------------------------------------------------------
(* make_drive_image *)

\* Slip: a format that is none of dc42, blu, usbwidex is written as raw.
make_drive_image_RawFallback(tags, data, image_format, device, flags) ==
  IF image_format = "dc42"
  THEN _make_apple_parallel_drive_image_dc42(tags, data, device)
  ELSE IF image_format = "blu"
  THEN _make_apple_parallel_drive_image_blu(tags, data, device, flags)
  ELSE IF image_format = "usbwidex"
  THEN [err |-> NoExc, image |-> usbwidex_image(tags, data)]
  ELSE [err |-> NoExc, image |-> raw_image(tags, data)]

\* make_drive_image(tags, data, image_format, device), run in a module whose
\* global FLAGS is `flags`.
make_drive_image(tags, data, image_format, device, flags) ==
  IF image_format = "dc42"
  THEN _make_apple_parallel_drive_image_dc42(tags, data, device)
  ELSE IF image_format = "blu"
  THEN _make_apple_parallel_drive_image_blu(tags, data, device, flags)
  ELSE IF image_format = "raw"
  THEN [err |-> NoExc, image |-> raw_image(tags, data)]
  ELSE IF image_format = "usbwidex"
  THEN [err |-> NoExc, image |-> usbwidex_image(tags, data)]
  ELSE [err |-> Raise("ValueError", 367), image |-> <<>>]

----------------------------------------------------------------------------
(* _read_binary_data *)

\* _read_binary_data(fp, size, name, clip): [err, data, size]; fp is the
\* content of the file.
_read_binary_data(fp, size, clip) ==
  LET data == Slice(fp, 0, size + 1)
  IN IF Len(data) = 0
     THEN [err |-> Raise("IOError", 400), data |-> <<>>, size |-> 0]
     ELSE IF Len(data) > size
     THEN [err |-> Raise("IOError", 402), data |-> <<>>, size |-> 0]
     ELSE IF clip
     THEN [err  |-> NoExc,
           data |-> data \o Zeros(BLOCK_DATA_SIZE - 1
                                    - ((Len(data) - 1) % BLOCK_DATA_SIZE)),
           size |-> Len(data)]
     ELSE [err  |-> NoExc,
           data |-> data \o Zeros(size - Len(data)),
           size |-> Len(data)]

----------------------------------------------------------------------------
(* Inputs of the model. *)

\* A program of n bytes.
Program(n) == [i \in 1..n |-> (37 * i + 11) % 256]

\* A bootloader file of n bytes.
Boot(n) == [i \in 1..n |-> (13 * i + 5) % 256]

\* Program lengths: empty, short, and both sides of every capacity boundary.
ProgramInputs ==
  {Program(n) : n \in {0, 4} \cup
     {BLOCK_DATA_SIZE * k + e : k \in 1..(MaxBlocks - 2), e \in {0, 1}}}

\* No bootloader, an empty one, a short one, and both sides of the size limit.
BootloaderInputs ==
  {None, Some(<<>>), Some(Boot(600)), Some(Boot(BOOTLOADER_SIZE)),
   Some(Boot(BOOTLOADER_SIZE + 1))}

\* 'TAG k\n'
ValidLine(k) == <<84, 65, 71, 32>> \o Digits(k) \o <<10>>

\* 'read\n': lower case is not in the ROM
BadLine == <<114, 101, 97, 100, 10>>

\* 'LOADING BLOCK NUMBER 1\r\n': 22 characters before the line ending
LongLine ==
  <<76, 79, 65, 68, 73, 78, 71, 32, 66, 76, 79, 67, 75, 32, 78, 85, 77, 66,
    69, 82, 32, 49, 13, 10>>

ValidLines(n) == [k \in 1..n |-> ValidLine(k)]

TagSourceInputs ==
  {None} \cup {Some(LinesIter(ValidLines(n))) : n \in 0..(MaxBlocks - 3)}
         \cup {Some(LinesIter(<<BadLine>>)), Some(LinesIter(<<LongLine>>))}

UnknownDevice == "floppy"

UnknownFormat == "iso"

DeviceInputs == DEVICES \cup {UnknownDevice}

FormatInputs == IMAGE_FORMATS \cup {UnknownFormat}

NumBlocksInputs == {None, Some(0)} \cup {Some(n) : n \in 2..MaxBlocks}

\* The block count make_tags_and_data works with.
EffectiveBlocks(dev, nb) ==
  IF IsNone(nb) \/ Val(nb) = 0 THEN _DEFAULT_NUM_BLOCKS[dev] ELSE Val(nb)

\* The parsed command line: argparse admits only known devices and formats.
FlagsInputs ==
  [program    : {<<>>, Program(4), Program(BLOCK_DATA_SIZE + 1)},
   format     : IMAGE_FORMATS,
   device     : DEVICES,
   blocks     : {None, Some(0), Some(MaxBlocks)},
   clip       : BOOLEAN,
   tags_file  : {None, Some(LinesIter(ValidLines(1))), Some(LinesIter(<<>>))},
   bootloader : {None, Some(<<>>), Some(Boot(600)),
                 Some(Boot(BOOTLOADER_SIZE + 1))}]

\* Characters of the short lines: 'A', '9', '?', 'a' (not in the ROM), space,
\* LF and CR.
TagChars == {65, 57, 63, 97, 32, 10, 13}

\* n characters of the ROM: 'ABC...'
RomText(n) == [k \in 1..n |-> 65 + ((k - 1) % 26)]

\* Lines for _read_next_tag: every short line over TagChars, and lines of 17
\* to 20 ROM characters followed by nothing, a line ending or a lower-case
\* letter.
TagLineInputs ==
  UNION {[1..n -> TagChars] : n \in 0..MaxShortLine}
    \cup {RomText(n) \o e :
            n \in 17..20,
            e \in {<<>>, <<10>>, <<13, 10>>, <<97>>, <<97, 13, 10>>}}

\* Byte values of the short buffers handed to checksum.
ChecksumBytes == {0, 1, 128, 255}

\* Buffers for checksum: every buffer of up to MaxWords words over
\* ChecksumBytes, and full data blocks.
ChecksumInputs ==
  UNION {[1..(2 * w) -> ChecksumBytes] : w \in 0..MaxWords}
    \cup {Zeros(BLOCK_DATA_SIZE), Program(BLOCK_DATA_SIZE),
          [i \in 1..BLOCK_DATA_SIZE |-> 255]}

----------------------------------------------------------------------------
(* State. *)

VARIABLES
  pc,            \* where the run is
  FLAGS,         \* the module global FLAGS: None when the module is imported
  device,        \* arguments of make_tags_and_data ...
  program,
  bootloader,
  display_tags,  \* ... the tag source is consumed by the call
  num_blocks,
  tags,          \* the lists make_tags_and_data returned
  data,
  warnings,      \* number of warnings emitted
  image_format,  \* arguments of make_drive_image
  image_device,
  image,         \* the buffer make_drive_image returned
  err,           \* the exception that ended the run, if any
  output,        \* the buffers written to the output file, in order
  trace,         \* the pipeline stages entered, in order
  original,      \* argument of a permute call
  permuted       \* its result

vars ==
  <<pc, FLAGS, device, program, bootloader, display_tags, num_blocks, tags,
    data, warnings, image_format, image_device, image, err, output, trace,
    original, permuted>>

\* Nothing has been computed yet.
Blank ==
  /\ tags = <<>>
  /\ data = <<>>
  /\ warnings = 0
  /\ image_format = ""
  /\ image_device = ""
  /\ image = <<>>
  /\ err = NoExc
  /\ output = <<>>
  /\ trace = <<>>
  /\ original = <<>>
  /\ permuted = <<>>

\* The module has been imported by another program, which is about to call
\* make_tags_and_data: FLAGS is not defined.
InitLibrary ==
  /\ pc = "library"
  /\ FLAGS = None
  /\ device \in DeviceInputs
  /\ program \in ProgramInputs
  /\ bootloader \in BootloaderInputs
  /\ display_tags \in TagSourceInputs
  /\ num_blocks \in NumBlocksInputs
  /\ device \in DEVICES => EffectiveBlocks(device, num_blocks) <= MaxBlocks
  \* bootloaders that are accepted are tried with the short program and the
  \* default tags
  /\ bootloader \notin {None, Some(Boot(BOOTLOADER_SIZE + 1))} =>
       program = Program(4) /\ display_tags = None
  /\ Blank

\* The module runs as a script: the flags are parsed and main(FLAGS) is
\* about to run.
InitScript ==
  /\ pc = "main"
  /\ FLAGS \in {Some(f) : f \in FlagsInputs}
  /\ device = ""
  /\ program = <<>>
  /\ bootloader = None
  /\ display_tags = None
  /\ num_blocks = None
  /\ Blank

Init == InitLibrary \/ InitScript

----------------------------------------------------------------------------
(* Library use: make_tags_and_data, then make_drive_image on its result. *)

call_make_tags_and_data ==
  /\ pc = "library"
  /\ LET r == make_tags_and_data(device, program, bootloader, display_tags,
                                 num_blocks)
     IN /\ tags' = r.tags
        /\ data' = r.data
        /\ display_tags' = Some(r.fp)
        /\ warnings' = warnings + r.warnings
        /\ err' = r.err
        /\ pc' = IF r.err.exc = "None" THEN "assembled" ELSE "raised"
  /\ trace' = Append(trace, "make_tags_and_data")
  /\ UNCHANGED <<FLAGS, device, program, bootloader, num_blocks, image_format,
                 image_device, image, output, original, permuted>>

call_make_drive_image ==
  /\ pc = "assembled"
  /\ \E f \in FormatInputs, d \in {device, UnknownDevice} :
       /\ f # "blu" => d = device
       /\ image_format' = f
       /\ image_device' = d
       /\ LET r == make_drive_image(tags, data, f, d, FLAGS)
          IN /\ image' = r.image
             /\ err' = r.err
             /\ pc' = IF r.err.exc = "None" THEN "imaged" ELSE "raised"
  /\ trace' = Append(trace, "make_drive_image")
  /\ UNCHANGED <<FLAGS, device, program, bootloader, display_tags, num_blocks,
                 tags, data, warnings, output, original, permuted>>

----------------------------------------------------------------------------
(* main *)

\* Lines 212-221: the tag source and the bootloader.
main_setup ==
  /\ pc = "main"
  /\ LET F == Val(FLAGS)
         tags_file == IF IsNone(F.tags_file) THEN DefaultTags
                      ELSE Val(F.tags_file)
         r == IF IsNone(F.bootloader) THEN [err |-> NoExc, data |-> <<>>]
              ELSE _read_binary_data(Val(F.bootloader), BOOTLOADER_SIZE, FALSE)
     IN /\ display_tags' = Some(tags_file)
        /\ bootloader' = IF IsNone(F.bootloader) \/ r.err.exc # "None"
                         THEN None ELSE Some(r.data)
        /\ err' = r.err
        /\ pc' = IF r.err.exc = "None" THEN "main_program" ELSE "raised"
        /\ trace' = IF IsNone(F.bootloader) THEN trace
                    ELSE Append(trace, "read_bootloader")
  /\ UNCHANGED <<FLAGS, device, program, num_blocks, tags, data, warnings,
                 image_format, image_device, image, output, original,
                 permuted>>

\* What main has done when nothing after line 226 has taken effect.
main_nothing(tags_file) ==
  [err |-> NoExc, program |-> <<>>, num_blocks |-> None, tags |-> <<>>,
   data |-> <<>>, fp |-> tags_file, warnings |-> 0, image |-> <<>>,
   output |-> <<>>, stages |-> <<>>]

\* Lines 243-247: im is the outcome of make_drive_image; the image is written
\* to the output file when the call returned.
main_write(rd, nb, td, im) ==
  IF im.err.exc # "None"
  THEN [err |-> im.err, program |-> rd.data, num_blocks |-> nb,
        tags |-> td.tags, data |-> td.data, fp |-> td.fp,
        warnings |-> td.warnings, image |-> <<>>, output |-> <<>>,
        stages |-> <<"read_program", "make_tags_and_data",
                     "make_drive_image">>]
  ELSE [err |-> NoExc, program |-> rd.data, num_blocks |-> nb,
        tags |-> td.tags, data |-> td.data, fp |-> td.fp,
        warnings |-> td.warnings, image |-> im.image,
        output |-> <<im.image>>,
        stages |-> <<"read_program", "make_tags_and_data",
                     "make_drive_image", "write">>]

\* Slip: the outcome of make_tags_and_data is not looked at; the image is
\* made of whatever lists there are.
main_image_KeepGoing(F, rd, nb, td) ==
  main_write(rd, nb, td,
             make_drive_image(td.tags, td.data, F.format, F.device, Some(F)))

\* Lines 239-243: td is the outcome of make_tags_and_data.
main_image(F, rd, nb, td) ==
  IF td.err.exc # "None"
  THEN [err |-> td.err, program |-> rd.data, num_blocks |-> nb,
        tags |-> <<>>, data |-> <<>>, fp |-> td.fp,
        warnings |-> td.warnings, image |-> <<>>, output |-> <<>>,
        stages |-> <<"read_program", "make_tags_and_data">>]
  ELSE main_write(rd, nb, td,
                  make_drive_image(td.tags, td.data, F.format, F.device,
                                   Some(F)))

\* Lines 231-240: rd is the outcome of _read_binary_data on the program.
main_tags(F, rd, bootloader_, tags_file) ==
  LET program_blocks == Ceil(rd.size, BLOCK_DATA_SIZE)
      nb == IF F.clip /\ (IsNone(F.blocks) \/ Val(F.blocks) = 0)
            THEN Some(program_blocks + 2) ELSE F.blocks
  IN IF rd.err.exc # "None"
     THEN [main_nothing(tags_file) EXCEPT !.err = rd.err,
                                          !.stages = <<"read_program">>]
     ELSE main_image(F, rd, nb,
                     make_tags_and_data(F.device, rd.data, bootloader_,
                                        Some(tags_file), nb))

\* Lines 226-247 given the value of main's local num_blocks when line 227
\* reads it (None: no value bound yet).
main_rest(F, local_num_blocks, bootloader_, tags_file) ==
  IF IsNone(local_num_blocks)
  THEN [main_nothing(tags_file) EXCEPT !.err = Raise("UnboundLocalError", 227)]
  ELSE main_tags(F,
                 _read_binary_data(
                   F.program,
                   BLOCK_DATA_SIZE * Val(local_num_blocks) - 2 * BLOCK_DATA_SIZE,
                   F.clip),
                 bootloader_, tags_file)

\* The effect of main's run r on the state of the program.
main_effect(F, r) ==
  /\ program' = r.program
  /\ num_blocks' = r.num_blocks
  /\ device' = IF "make_tags_and_data" \in {r.stages[k] : k \in DOMAIN r.stages}
               THEN F.device ELSE device
  /\ tags' = r.tags
  /\ data' = r.data
  /\ display_tags' = Some(r.fp)
  /\ warnings' = warnings + r.warnings
  /\ image' = r.image
  /\ image_format' = IF r.image # <<>> THEN F.format ELSE image_format
  /\ image_device' = IF r.image # <<>> THEN F.device ELSE image_device
  /\ output' = output \o r.output
  /\ err' = r.err
  /\ trace' = trace \o r.stages
  /\ pc' = IF r.err.exc = "None" THEN "done" ELSE "raised"

\* Lines 226-247.  num_blocks is a local of main (line 234 assigns it), so
\* it has no value when line 227 reads it.
main_build ==
  /\ pc = "main_program"
  /\ main_effect(Val(FLAGS),
                 main_rest(Val(FLAGS), None, bootloader, Val(display_tags)))
  /\ UNCHANGED <<FLAGS, bootloader, original, permuted>>

----------------------------------------------------------------------------
(* The permute functions on their own. *)

\* A list of n distinct non-zero items of `size` bytes each.
Items(n, size) == [k \in 1..n |-> [b \in 1..size |-> k]]

InitPermute ==
  /\ pc = "permute"
  /\ FLAGS = None
  /\ device = ""
  /\ program = <<>>
  /\ bootloader = None
  /\ display_tags = None
  /\ num_blocks = None
  /\ tags = <<>>
  /\ data = <<>>
  /\ warnings = 0
  /\ image_format = ""
  /\ image_device = ""
  /\ image = <<>>
  /\ err = NoExc
  /\ output = <<>>
  /\ trace = <<>>
  /\ original \in {Items(n, size) : n \in 0..MaxPermuteLen, size \in 1..2}
  /\ permuted = <<>>

call_dc42_permute ==
  /\ pc = "permute"
  /\ permuted' = dc42_permute(original)
  /\ pc' = "permuted_dc42"
  /\ UNCHANGED <<FLAGS, device, program, bootloader, display_tags, num_blocks,
                 tags, data, warnings, image_format, image_device, image, err,
                 output, trace, original>>

call_blu_permute ==
  /\ pc = "permute"
  /\ permuted' = blu_permute(original)
  /\ pc' = "permuted_blu"
  /\ UNCHANGED <<FLAGS, device, program, bootloader, display_tags, num_blocks,
                 tags, data, warnings, image_format, image_device, image, err,
                 output, trace, original>>

----------------------------------------------------------------------------
(* _read_next_tag on its own. *)

\* A tag source is about to be drawn from: an iterator at its only line, or
\* a DefaultTags object that has been drawn from a few times.
InitTag ==
  /\ pc = "tag"
  /\ FLAGS = None
  /\ device = ""
  /\ program = <<>>
  /\ bootloader = None
  /\ display_tags \in
       {Some(LinesIter(<<ln>>)) : ln \in TagLineInputs}
         \cup {Some([kind |-> "DefaultTags", blocks_read |-> n]) : n \in 0..3}
  /\ num_blocks = None
  /\ Blank

\* tag = _read_next_tag(display_tags)
call_read_next_tag ==
  /\ pc = "tag"
  /\ LET r == _read_next_tag(Val(display_tags))
     IN /\ tags' = IF r.err.exc = "None" THEN <<r.tag>> ELSE <<>>
        /\ display_tags' = Some(r.fp)
        /\ warnings' = warnings + (IF r.warned THEN 1 ELSE 0)
        /\ err' = r.err
        /\ pc' = IF r.err.exc = "None" THEN "tag_read" ELSE "raised"
  /\ trace' = Append(trace, "_read_next_tag")
  /\ UNCHANGED <<FLAGS, device, program, bootloader, num_blocks, data,
                 image_format, image_device, image, output, original,
                 permuted>>

----------------------------------------------------------------------------
(* checksum on its own. *)

\* A buffer of even length is about to be checksummed.
InitChecksum ==
  /\ pc = "checksum"
  /\ FLAGS = None
  /\ device = ""
  /\ program = <<>>
  /\ bootloader = None
  /\ display_tags = None
  /\ num_blocks = None
  /\ tags = <<>>
  /\ data \in {<<block>> : block \in ChecksumInputs}
  /\ warnings = 0
  /\ image_format = ""
  /\ image_device = ""
  /\ image = <<>>
  /\ err = NoExc
  /\ output = <<>>
  /\ trace = <<>>
  /\ original = <<>>
  /\ permuted = <<>>

\* tags = [checksum(data[0])]
call_checksum ==
  /\ pc = "checksum"
  /\ tags' = <<checksum(data[1])>>
  /\ pc' = "checksummed"
  /\ trace' = Append(trace, "checksum")
  /\ UNCHANGED <<FLAGS, device, program, bootloader, display_tags, num_blocks,
                 data, warnings, image_format, image_device, image, err,
                 output, original, permuted>>

----------------------------------------------------------------------------
(* Specifications. *)

Next ==
  \/ call_make_tags_and_data
  \/ call_make_drive_image
  \/ main_setup
  \/ main_build

Spec == Init /\ [][Next]_vars

\* A started run of the script keeps running until it returns or raises.
FairSpec == Spec /\ WF_vars(main_setup) /\ WF_vars(main_build)

NextPermute == call_dc42_permute \/ call_blu_permute

SpecPermute == InitPermute /\ [][NextPermute]_vars

NextTag == call_read_next_tag

SpecTag == InitTag /\ [][NextTag]_vars

NextChecksum == call_checksum

SpecChecksum == InitChecksum /\ [][NextChecksum]_vars

----------------------------------------------------------------------------
(* Vocabulary of the properties. *)

\* The library call of make_tags_and_data has ended (returned or raised) and
\* nothing has run since.
AssemblyEnded == trace = <<"make_tags_and_data">>

\* ... and it returned its two lists.
AssemblyReturned == AssemblyEnded /\ pc = "assembled"

\* The library call of make_drive_image has ended (returned or raised).
ImageCallEnded == trace = <<"make_tags_and_data", "make_drive_image">>

\* ... and it returned a buffer.
ImageReturned == ImageCallEnded /\ pc = "imaged"

\* ceil(n / 512)
BlocksOf(n) == (n + 511) \div 512

\* A line whose characters, line ending apart, are all in the ROM.
LineAllowed(ln) ==
  \A k \in 1..Len(ln) :
    ln[k] \in {13, 10} \/ ln[k] \in (48..57) \cup (65..90) \cup {32, 46, 47, 45, 63}

\* The tag source can supply n labels.
SourceSupplies(fp, n) ==
  \/ fp.kind = "DefaultTags"
  \/ /\ Len(fp.lines) >= n
     /\ \A k \in 1..n : LineAllowed(fp.lines[k])

\* The arguments of the make_tags_and_data call pass every check before the
\* labels are drawn, with nb the effective block count.
ChecksPass(nb) ==
  /\ device \in {"profile", "profile-10", "widget"}
  /\ nb >= 3
  /\ IsNone(bootloader) \/ Len(Val(bootloader)) <= 1064
  /\ Len(program) <= 512 * (nb - 2)

\* The effective block count of the call, for a known device.
CallBlocks == EffectiveBlocks(device, num_blocks)

----------------------------------------------------------------------------
(* C1 *)

\* C1: every make_tags_and_data call that passes validation (known device,
\* effective num_blocks >= 3, bootloader of at most 1064 bytes, program of 0
\* to 512*(num_blocks-2) bytes, tag source long enough) returns two lists
\* of num_blocks items, every tag 20 bytes and every data item 512 bytes.
C1_AssembledShape ==
  (/\ AssemblyEnded
   /\ device \in {"profile", "profile-10", "widget"}
   /\ ChecksPass(CallBlocks)
   /\ SourceSupplies(Val(display_tags), BlocksOf(Len(program)) - 1))
  => /\ err.exc = "None"
     /\ Len(tags) = CallBlocks
     /\ Len(data) = CallBlocks
     /\ \A k \in 1..Len(tags) : Len(tags[k]) = 20
     /\ \A k \in 1..Len(data) : Len(data[k]) = 512

----------------------------------------------------------------------------
(* C2 *)

\* Device 'profile', a 4-byte program, the default tag generator and
\* num_blocks = 4, with any admissible bootloader.
C2_Case ==
  /\ AssemblyEnded
  /\ device = "profile"
  /\ Len(program) = 4
  /\ Val(display_tags).kind = "DefaultTags"
  /\ num_blocks = Some(4)
  /\ IsNone(bootloader) \/ Len(Val(bootloader)) <= 1064

\* C2 as stated: the assembly yields 4 blocks, the tag of block 2 begins with
\* the block checksum of the 4 program bytes followed by 508 zero bytes, and
\* the tag of block 3, the last block, ends with TAG_FOR_LAST_BLOCK.
C2_Original ==
  C2_Case =>
    /\ err.exc = "None"
    /\ Len(tags) = 4 /\ Len(data) = 4
    /\ SubSeq(tags[3], 1, 2) = checksum(program \o Zeros(508))
    /\ SubSeq(tags[4], 3, 20) = TAG_FOR_LAST_BLOCK

\* C2 as amended: the assembly yields 4 blocks, the tag of block 2 (the last
\* block that holds program data) begins with the block checksum of the 4
\* program bytes followed by 508 zero bytes and ends with TAG_FOR_LAST_BLOCK,
\* and the tag of block 3, the last block of the image, is 20 zero bytes.
C2_EndToEnd ==
  C2_Case =>
    /\ err.exc = "None"
    /\ Len(tags) = 4 /\ Len(data) = 4
    /\ data[3] = program \o Zeros(508)
    /\ SubSeq(tags[3], 1, 2) = checksum(program \o Zeros(508))
    /\ SubSeq(tags[3], 3, 20) = TAG_FOR_LAST_BLOCK
    /\ tags[4] = Zeros(20)

C2_Witness == C2_Case /\ pc = "assembled" /\ Len(tags) = 4

----------------------------------------------------------------------------
(* C3, C4 *)

\* The 532-byte blocks of a BLU image after its identification block.
PostHeaderBlocks ==
  [m \in 1..((Len(image) - 532) \div 532) |->
     SubSeq(image, 532 * m + 1, 532 * m + 532)]

\* The slot of the 32-slot interleave that input position j goes to:
\* 0, 13, 10, 7, 4, 1, 14, 11, 8, 5, 2, 15, 12, 9, 6, 3, 16, 29, 26, ...
InterleaveSlot(j) == 16 * (j \div 16) + ((13 * (j % 16)) % 16)

\* A make_drive_image call for a BLU image of a known device has ended.
BluCallEnded ==
  /\ ImageCallEnded
  /\ image_format = "blu"
  /\ image_device \in {"profile", "profile-10", "widget"}

\* Block k of the assembly in the byte order C3 gives the device class.
BluBlock(k) ==
  IF image_device = "widget" THEN tags[k] \o data[k] ELSE data[k] \o tags[k]

\* C3: every call make_drive_image(tags, data, 'blu', device) returns an
\* image whose post-header blocks are data || tag for 'profile' and
\* 'profile-10' and tag || data for 'widget', also when the module is used
\* as a library.
C3_BluByteOrder ==
  BluCallEnded =>
    /\ err.exc = "None"
    /\ \A k \in 1..Len(tags) :
         \E m \in DOMAIN PostHeaderBlocks : PostHeaderBlocks[m] = BluBlock(k)
    /\ \A m \in DOMAIN PostHeaderBlocks :
         \/ PostHeaderBlocks[m] = Zeros(532)
         \/ \E k \in 1..Len(tags) : PostHeaderBlocks[m] = BluBlock(k)

\* C4: in a BLU image the identification block stays at position 0; for
\* 'profile' and 'profile-10' input block 32c+j is at post-header slot
\* 32c+table[j] and the blocks are padded with zero blocks to the next
\* multiple of 32; for 'widget' the post-header blocks stay in linear order.
C4_BluInterleave ==
  BluCallEnded =>
    /\ err.exc = "None"
    /\ Len(SubSeq(image, 1, 532)) = 532
    /\ SubSeq(image, 513, 532) = ID_TAG
    /\ image_device \in {"profile", "profile-10"} =>
         /\ Len(PostHeaderBlocks) = 32 * ((Len(tags) + 31) \div 32)
         /\ \A i \in 0..(Len(tags) - 1) :
              PostHeaderBlocks[32 * (i \div 32) + InterleaveSlot(i % 32) + 1]
                = data[i + 1] \o tags[i + 1]
         /\ \A m \in DOMAIN PostHeaderBlocks :
              (\A i \in 0..(Len(tags) - 1) :
                 m # 32 * (i \div 32) + InterleaveSlot(i % 32) + 1)
              => PostHeaderBlocks[m] = Zeros(532)
    /\ image_device = "widget" =>
         /\ Len(PostHeaderBlocks) = Len(tags)
         /\ \A k \in 1..Len(tags) :
              PostHeaderBlocks[k] \in {tags[k] \o data[k], data[k] \o tags[k]}

----------------------------------------------------------------------------
(* C5 *)

\* The block count main asks make_tags_and_data for.
FlagsBlocks(F) ==
  IF F.clip /\ (IsNone(F.blocks) \/ Val(F.blocks) = 0)
  THEN BlocksOf(Len(F.program)) + 2
  ELSE EffectiveBlocks(F.device, F.blocks)

\* Valid flags: a non-empty program that fits the image, a known device and
\* format, a bootloader file (if any) of 1 to 1064 bytes, enough labels.
ValidFlags(F) ==
  /\ Len(F.program) > 0
  /\ F.device \in {"profile", "profile-10", "widget"}
  /\ F.format \in {"dc42", "blu", "raw", "usbwidex"}
  /\ FlagsBlocks(F) >= 3
  /\ Len(F.program) <= 512 * (FlagsBlocks(F) - 2)
  /\ IsNone(F.bootloader)
       \/ (Len(Val(F.bootloader)) > 0 /\ Len(Val(F.bootloader)) <= 1064)
  /\ IsNone(F.tags_file)
       \/ SourceSupplies(Val(F.tags_file), BlocksOf(Len(F.program)) - 1)

\* main(FLAGS) has returned or raised.
MainEnded == ~IsNone(FLAGS) /\ pc \in {"done", "raised"}

\* The stages of trace other than the reading of the bootloader file.
PipelineStages == SelectSeq(trace, LAMBDA st : st # "read_bootloader")

\* C5: every invocation of main with valid flags runs read program ->
\* make_tags_and_data -> make_drive_image -> output write to completion and
\* has written the image to the output exactly once when it ends.
C5_MainWritesOnce ==
  (MainEnded /\ ValidFlags(Val(FLAGS))) =>
    /\ pc = "done"
    /\ PipelineStages = <<"read_program", "make_tags_and_data",
                          "make_drive_image", "write">>
    /\ Len(output) = 1
    /\ output[1] = image

----------------------------------------------------------------------------
(* C6 *)

\* A make_tags_and_data call that passes the device, block count and
\* bootloader checks has ended.
C6_Case ==
  /\ AssemblyEnded
  /\ device \in {"profile", "profile-10", "widget"}
  /\ CallBlocks >= 3
  /\ IsNone(bootloader) \/ Len(Val(bootloader)) <= 1064

\* C6: with data_space = 512*(num_blocks-2), a program of exactly data_space
\* bytes assembles without error when the tag source can label it (every
\* program chunk then carries its checksum and no all-zero padding tag is
\* added) and never fails with the capacity error; a program of
\* data_space+1 bytes fails with the capacity error (ValueError) and
\* returns no lists.
C6_CapacityBoundary ==
  C6_Case =>
    /\ Len(program) = 512 * (CallBlocks - 2) =>
         /\ err # Raise("ValueError", 306)
         /\ SourceSupplies(Val(display_tags), CallBlocks - 3) =>
              /\ err.exc = "None"
              /\ Len(tags) = CallBlocks
              /\ \A k \in 3..CallBlocks :
                   /\ SubSeq(tags[k], 1, 2) = checksum(data[k])
                   /\ tags[k] # Zeros(20)
              /\ SubSeq(tags[CallBlocks], 3, 20) = TAG_FOR_LAST_BLOCK
    /\ Len(program) = 512 * (CallBlocks - 2) + 1 =>
         /\ err = Raise("ValueError", 306)
         /\ pc = "raised"
         /\ tags = <<>> /\ data = <<>>

\* A program that fills a 4-block image exactly has been assembled.
C6_Witness ==
  /\ C6_Case
  /\ CallBlocks = 4
  /\ Len(program) = 1024
  /\ pc = "assembled"

----------------------------------------------------------------------------
(* C7 *)

\* The 18-byte label made from a line with allowed characters.
LabelOf(ln) ==
  LET text == SelectSeq(ln, LAMBDA c : c \notin {13, 10})
  IN [k \in 1..18 |-> IF k <= Len(text) THEN text[k] ELSE 32]

\* The i-th line of the tag source, i >= 1.
SourceLine(fp, i) ==
  IF fp.kind = "DefaultTags" THEN DefaultTagLine(i) ELSE fp.lines[i]

----------------------------------------------------------------------------
(* C8 *)

\* C8: the interleave table is a bijection on 0..31 and is the same in the
\* dc42 and BLU serializers; permute puts input item 32c+j at output index
\* 32c+table[j]; the output has length 32*ceil(n/32), every slot that
\* receives no input item holds a zero-filled item of the item size, and
\* for n a multiple of 32 the output is a rearrangement of the input (same
\* length, every input item present exactly once, no slot unfilled).
C8_Permute ==
  /\ Len(LISAEM_DEINTERLEAVE) = 32
  /\ {LISAEM_DEINTERLEAVE[j] : j \in 1..32} = 0..31
  /\ BLU_PROFILE_DEINTERLEAVE = LISAEM_DEINTERLEAVE
  /\ \A j \in 0..31 : LISAEM_DEINTERLEAVE[j + 1] = InterleaveSlot(j)
  /\ pc \in {"permuted_dc42", "permuted_blu"} =>
       LET n == Len(original)
           table == IF pc = "permuted_dc42" THEN LISAEM_DEINTERLEAVE
                    ELSE BLU_PROFILE_DEINTERLEAVE
           slot(i) == 32 * (i \div 32) + table[(i % 32) + 1] + 1
       IN /\ Len(permuted) = 32 * ((n + 31) \div 32)
          /\ \A i \in 0..(n - 1) : permuted[slot(i)] = original[i + 1]
          /\ \A m \in 1..Len(permuted) :
               (\A i \in 0..(n - 1) : slot(i) # m)
               => permuted[m] = Zeros(Len(original[1]))
          /\ n % 32 = 0 =>
               /\ Len(permuted) = n
               /\ \A i \in 1..n :
                    Cardinality({m \in 1..n : permuted[m] = original[i]}) = 1
               /\ \A m \in 1..n : \E i \in 1..n : permuted[m] = original[i]

\* Two full chunks have been permuted.
C8_Witness == pc = "permuted_dc42" /\ Len(original) = 64 /\ Len(permuted) = 64

----------------------------------------------------------------------------
(* C9 *)

\* The number of blocks of a dc42 stream: the block count rounded up to a
\* multiple of 32.
PaddedBlocks == 32 * ((Len(tags) + 31) \div 32)

\* The 32-bit big-endian value at image[at+1 .. at+4], as <<high, low>>
\* 16-bit halves.
Word32At(at) ==
  <<image[at + 1] * 256 + image[at + 2], image[at + 3] * 256 + image[at + 4]>>

\* One container checksum step undone: rotate left one bit within 32 bits,
\* then subtract the 16-bit word w modulo 2^32.
Unstep(w, csum) ==
  LET hi == ((csum[1] * 2) % 65536) + (csum[2] \div 32768)
      lo == ((csum[2] * 2) % 65536) + (csum[1] \div 32768)
  IN IF lo >= w THEN <<hi, lo - w>>
     ELSE <<(hi + 65535) % 65536, lo + 65536 - w>>

\* The container checksum steps of the words first .. last-1 of the image
\* bytes from offset `at` on, undone from the last word to the first.
RECURSIVE Unwind(_, _, _, _)
Unwind(at, first, last, csum) ==
  IF last <= first THEN csum
  ELSE IF last - first = 1
  THEN Unstep(image[at + 2 * first + 1] * 256 + image[at + 2 * first + 2], csum)
  ELSE LET mid == (first + last) \div 2
           right == Unwind(at, mid, last, csum)
       IN Eval(right, Unwind(at, first, mid, right))

\* The stream of `size`-byte items at offset `at` of the image is the
\* interleaved list items: item i at slot 32c+table[j], zeros elsewhere.
IsPermutedStream(at, items, size) ==
  /\ \A i \in 0..(Len(items) - 1) :
       LET m == 32 * (i \div 32) + InterleaveSlot(i % 32)
       IN SubSeq(image, at + size * m + 1, at + size * (m + 1)) = items[i + 1]
  /\ \A m \in 0..(PaddedBlocks - 1) :
       (\A i \in 0..(Len(items) - 1) :
          m # 32 * (i \div 32) + InterleaveSlot(i % 32))
       => \A b \in 1..size : image[at + size * m + b] = 0

\* C9: the dc42 output is an 84-byte header (64-byte length-prefixed name,
\* big-endian byte lengths of the permuted data and tag streams, container
\* checksums of the permuted data stream and of the permuted tag stream
\* less its first 12 bytes, encoding 0x5D, format 0x93, magic 0x0100), the
\* permuted data blocks, then the permuted tag blocks; the container
\* checksum is acc = rotate-right-1(acc + w mod 2^32) per big-endian word,
\* from 0.
C9_Dc42Layout ==
  (ImageReturned /\ image_format = "dc42") =>
    LET P == PaddedBlocks
        name_len == image[1]
    IN /\ Len(image) = 84 + 512 * P + 20 * P
       /\ name_len <= 63
       /\ \A b \in (name_len + 2)..64 : image[b] = 0
       /\ SubSeq(image, 1, 64) = DC42_NAME
       /\ Word32At(64) = <<(512 * P) \div 65536, (512 * P) % 65536>>
       /\ Word32At(68) = <<(20 * P) \div 65536, (20 * P) % 65536>>
       /\ SubSeq(image, 81, 84) = <<93, 147, 1, 0>>
       /\ IsPermutedStream(84, data, 512)
       /\ IsPermutedStream(84 + 512 * P, tags, 20)
       /\ Unwind(84, 0, 256 * P, Word32At(72)) = <<0, 0>>
       /\ Unwind(84 + 512 * P + 12, 0, 10 * P - 6, Word32At(76)) = <<0, 0>>

\* A dc42 image has been made.
C9_Witness ==
  /\ ImageReturned
  /\ image_format = "dc42"
  /\ Len(image) = 84 + 532 * 32

----------------------------------------------------------------------------
(* C10 *)

\* C10: the raw image of an assembly of N blocks is tag_i || data_i in
\* block order and nothing else: it has 532*N bytes, and its 532-byte
\* records split at byte 20 are the tags and data lists again.
C10_RawRoundTrip ==
  (ImageReturned /\ image_format = "raw") =>
    LET N == Len(tags)
    IN /\ Len(data) = N
       /\ Len(image) = 532 * N
       /\ [k \in 1..N |-> SubSeq(image, 532 * (k - 1) + 1, 532 * (k - 1) + 20)]
            = tags
       /\ [k \in 1..N |-> SubSeq(image, 532 * (k - 1) + 21, 532 * k)] = data

\* A raw image has been made of an assembly with a labelled block.
C10_Witness ==
  /\ ImageReturned
  /\ image_format = "raw"
  /\ Len(tags) >= 4
  /\ Len(image) = 532 * Len(tags)

----------------------------------------------------------------------------
(* C11 *)

\* C11: the usbwidex image of an assembly of N blocks has exactly 1024*N
\* bytes; its i-th 1024-byte record is tag_i, then data_i, then 492 zero
\* bytes, the records in block order as in the raw format.
C11_UsbWidexRecords ==
  (ImageReturned /\ image_format = "usbwidex") =>
    LET N == Len(tags)
    IN /\ Len(data) = N
       /\ Len(image) = 1024 * N
       /\ \A k \in 1..N :
            LET at == 1024 * (k - 1)
            IN /\ SubSeq(image, at + 1, at + 20) = tags[k]
               /\ SubSeq(image, at + 21, at + 532) = data[k]
               /\ \A b \in 533..1024 : image[at + b] = 0

\* A usbwidex image has been made of a full assembly.
C11_Witness ==
  /\ ImageReturned
  /\ image_format = "usbwidex"
  /\ Len(tags) >= 4
  /\ Len(image) = 1024 * Len(tags)

----------------------------------------------------------------------------
(* C12 *)

\* C12: a make_drive_image call whose image_format is none of 'dc42',
\* 'blu', 'raw', 'usbwidex', or whose image_format is 'blu' with a device
\* that has no identification record, raises ValueError and returns no
\* buffer, and leaves the tags and data lists it was given unchanged.
C12_DriveImageErrors ==
  [][(/\ pc = "assembled"
      /\ trace' = Append(trace, "make_drive_image")
      /\ \/ image_format' \notin {"dc42", "blu", "raw", "usbwidex"}
         \/ /\ image_format' = "blu"
            /\ image_device' \notin {"profile", "profile-10", "widget"})
     => /\ pc' = "raised"
        /\ err'.exc = "ValueError"
        /\ image' = <<>>
        /\ tags' = tags
        /\ data' = data]_vars

\* make_drive_image has raised on a format it does not know.
C12_Witness ==
  /\ ImageCallEnded
  /\ image_format \notin {"dc42", "blu", "raw", "usbwidex"}
  /\ pc = "raised"
  /\ Len(tags) >= 3

\* make_drive_image has raised on a BLU image for a device without an
\* identification record.
C12_WitnessDevice ==
  /\ ImageCallEnded
  /\ image_format = "blu"
  /\ image_device \notin {"profile", "profile-10", "widget"}
  /\ err.exc = "ValueError"

----------------------------------------------------------------------------
(* C13 *)

\* The number of bytes a sequence of writes has put in the output file.
BytesWritten(writes) == Len(Join(writes))

\* The outcome r of lines 226-247 writes nothing unless both calls returned,
\* and then writes the image once.
WritesOnlyAtEnd(r) ==
  /\ Len(r.output) <= 1
  /\ r.err.exc # "None" => BytesWritten(r.output) = 0
  /\ r.output # <<>> =>
       /\ r.err.exc = "None"
       /\ r.stages = <<"read_program", "make_tags_and_data",
                       "make_drive_image", "write">>
       /\ Len(r.tags) >= 3
       /\ Len(r.data) = Len(r.tags)
       /\ r.output = <<r.image>>

----------------------------------------------------------------------------
(* C14 *)

\* C14: after a successful make_tags_and_data call with program_blocks =
\* ceil(program_length/512) >= 1, the tag of each program block but the last
\* is the checksum of its data followed by the label drawn for it, in source
\* order; the tag of the last program block is the checksum of its data
\* followed by TAG_FOR_LAST_BLOCK; every later tag is 20 zero bytes.
C14_ProgramTags ==
  LET pb == BlocksOf(Len(program))
      fp == Val(display_tags)
  IN (AssemblyReturned /\ pb >= 1) =>
       /\ Len(tags) >= 2 + pb
       /\ Len(data) = Len(tags)
       /\ \A i \in 0..(pb - 2) :
            tags[3 + i] = checksum(data[3 + i]) \o LabelOf(SourceLine(fp, i + 1))
       /\ tags[2 + pb] = checksum(data[2 + pb]) \o TAG_FOR_LAST_BLOCK
       /\ \A k \in (3 + pb)..Len(tags) : tags[k] = Zeros(20)

\* A two-block program has been assembled with the default labels.
C14_Witness ==
  /\ AssemblyReturned
  /\ BlocksOf(Len(program)) = 2
  /\ Val(display_tags).kind = "DefaultTags"
  /\ Len(tags) = 4

\* A one-block program has been assembled into an image with a padding
\* block.
C14_WitnessPadding ==
  /\ AssemblyReturned
  /\ BlocksOf(Len(program)) = 1
  /\ Len(tags) = 4
  /\ tags[4] = Zeros(20)

----------------------------------------------------------------------------
(* C15 *)

\* The bootloader handed to the call is longer than two blocks.
BootloaderTooLong == ~IsNone(bootloader) /\ Len(Val(bootloader)) > 1064

\* The device of the call is one the module knows.
DeviceKnown == device \in {"profile", "profile-10", "widget"}

\* C15: make_tags_and_data checks, in this order, the device, the block
\* count (at least 3), the bootloader length (at most 1064) and the program
\* length (at most data_space), and only then draws labels: the error of a
\* call is that of the first check that fails, none of these errors comes
\* after a draw from the tag source, and a tag-source error (exhaustion,
\* disallowed character) is raised only when all four checks pass.
C15_CheckOrder ==
  AssemblyEnded =>
    /\ ~DeviceKnown => err = Raise("ValueError", 279)
    /\ (DeviceKnown /\ CallBlocks < 3) => err = Raise("ValueError", 288)
    /\ (DeviceKnown /\ CallBlocks >= 3 /\ BootloaderTooLong)
         => err = Raise("ValueError", 292)
    /\ (/\ DeviceKnown
        /\ CallBlocks >= 3
        /\ ~BootloaderTooLong
        /\ Len(program) > 512 * (CallBlocks - 2))
         => err = Raise("ValueError", 306)
    /\ err.exc = "ValueError" =>
         /\ pc = "raised"
         /\ Drawn(Val(display_tags)) = 0
         /\ tags = <<>> /\ data = <<>>
    /\ err.exc \in {"IOError", "RuntimeError"} =>
         /\ pc = "raised"
         /\ DeviceKnown
         /\ ChecksPass(CallBlocks)
         /\ ~SourceSupplies(Val(display_tags), BlocksOf(Len(program)) - 1)

\* A call with too few blocks, too long a bootloader, too long a program
\* and a tag file with a disallowed character has raised the block count
\* error.
C15_Witness ==
  /\ AssemblyEnded
  /\ DeviceKnown
  /\ CallBlocks < 3
  /\ BootloaderTooLong
  /\ Len(program) > 512
  /\ Val(display_tags).kind = "lines"
  /\ ~SourceSupplies(Val(display_tags), 1)
  /\ err = Raise("ValueError", 288)

----------------------------------------------------------------------------
(* C16 *)

\* C16: for a supplied bootloader B of 0 to 1064 bytes, with P = B followed
\* by zero bytes up to 1064 bytes, a successful assembly has tags[0] =
\* P[0:20], data[0] = P[20:532], tags[1] = P[532:552], data[1] =
\* P[552:1064]; a supplied bootloader of 1065 bytes or more is rejected
\* with an error; the built-in bootloader is in the first two blocks only
\* when no bootloader is supplied.
C16_BootloaderLayout ==
  (AssemblyEnded /\ DeviceKnown /\ CallBlocks >= 3 /\ ~IsNone(bootloader)) =>
    LET B == Val(bootloader)
        P == B \o [i \in 1..(1064 - Len(B)) |-> 0]
    IN /\ (Len(B) <= 1064 /\ pc = "assembled") =>
            /\ tags[1] = SubSeq(P, 1, 20)
            /\ data[1] = SubSeq(P, 21, 532)
            /\ tags[2] = SubSeq(P, 533, 552)
            /\ data[2] = SubSeq(P, 553, 1064)
            /\ tags[1] \o data[1] \o tags[2] \o data[2]
                 # _BUILT_IN_BOOTLOADER \o Zeros(1064 - Len(_BUILT_IN_BOOTLOADER))
       /\ Len(B) >= 1065 =>
            /\ err = Raise("ValueError", 292)
            /\ pc = "raised"
            /\ tags = <<>> /\ data = <<>>

\* An empty bootloader has been supplied and the assembly has the built-in
\* bootloader in its first two blocks.
C16_EmptyBootloader ==
  /\ AssemblyReturned
  /\ bootloader = Some(<<>>)
  /\ tags[1] \o data[1] \o tags[2] \o data[2]
       = _BUILT_IN_BOOTLOADER \o Zeros(1064 - Len(_BUILT_IN_BOOTLOADER))

\* C16 for supplied bootloaders of 1 byte or more: they are laid out or
\* rejected as C16 says.
C16_NonEmptyBootloader ==
  (~IsNone(bootloader) /\ Val(bootloader) = <<>>) \/ C16_BootloaderLayout

----------------------------------------------------------------------------
(* C17 *)

\* The characters the Lisa boot ROM can draw: 0-9, A-Z, space, '.', '/',
\* '-', '?'.
Alphabet == (48..57) \cup (65..90) \cup {32, 46, 47, 45, 63}

\* The length of a line without its trailing CR and LF characters.
StrippedLen(ln) ==
  IF \A k \in 1..Len(ln) : ln[k] \in {13, 10} THEN 0
  ELSE CHOOSE m \in 1..Len(ln) :
         /\ ln[m] \notin {13, 10}
         /\ \A k \in (m + 1)..Len(ln) : ln[k] \in {13, 10}

\* The line that the one draw of the run took from the tag source.
DrawnLine == SourceLine(Val(display_tags), Drawn(Val(display_tags)))

\* One call of _read_next_tag has ended.
TagCallEnded == trace = <<"_read_next_tag">>

C17_WitnessLateCharacter ==
  /\ TagCallEnded
  /\ pc = "raised"
  /\ StrippedLen(DrawnLine) > 18
  /\ \A k \in 1..18 : DrawnLine[k] \in Alphabet

----------------------------------------------------------------------------
(* C18 *)

\* a rotated left by one bit within 16 bits.
Rot16(a) == ((2 * a) % 65536) + (a \div 32768)

\* a rotated right by one bit within 16 bits.
Unrot16(a) == (a \div 2) + ((a % 2) * 32768)

\* The n-th big-endian 16-bit word of a buffer, n >= 1.
WordAt(block, n) == block[2 * n - 1] * 256 + block[2 * n]

\* The accumulator after the first n words of a buffer: 0 at the start, and
\* after each word w the sum with w modulo 65536 rotated left by one bit.
RECURSIVE AccAfter(_, _)
AccAfter(block, n) ==
  IF n = 0 THEN 0
  ELSE Rot16((AccAfter(block, n - 1) + WordAt(block, n)) % 65536)

\* The accumulator before the words first+1 .. last of a buffer, given the
\* accumulator acc after them: each step undone, from the last word to the
\* first.
RECURSIVE AccBefore(_, _, _, _)
AccBefore(block, first, last, acc) ==
  IF last <= first THEN acc
  ELSE IF last - first = 1
  THEN (Unrot16(acc) + 65536 - WordAt(block, last)) % 65536
  ELSE LET mid == (first + last) \div 2
           right == AccBefore(block, mid, last, acc)
       IN Eval(right, AccBefore(block, first, mid, right))

\* One call of checksum has ended.
ChecksumCallEnded == trace = <<"checksum">> /\ pc = "checksummed"

C18_WitnessZeroBlock ==
  /\ ChecksumCallEnded
  /\ data[1] = Zeros(512)
  /\ tags[1] = <<0, 0>>

====
